---- MODULE Spec2Model ----
(***************************************************************************)
(* kuling: find_matching_paths / delete_file over a small filesystem.      *)
(*                                                                         *)
(* A name is a sequence of one-character strings (<<"a","1">> is "a1"),    *)
(* a path is a sequence of names relative to the working directory (<<>>   *)
(* is the working directory itself), and a pattern is the sequence of      *)
(* characters of the pattern string, "/" included.                         *)
(***************************************************************************)
EXTENDS Naturals, Sequences, FiniteSets

VARIABLES fs, last, prev

vars == <<fs, last, prev>>

(* ------------------------------ bounds --------------------------------- *)

\* largest number of files and directories the filesystem holds
MaxEntries == 3

\* the names the test set-up creates: "a", "a1", "a2", "a12"
Names == { <<"a">>, <<"a", "1">>, <<"a", "2">>, <<"a", "1", "2">> }

(* --------------------------- the filesystem ---------------------------- *)

EmptyFs == [p \in {} |-> [kind |-> "dir"]]

\* a regular file holding the text c
File(c) == [kind |-> "file", content |-> c]

\* Path.touch(): a new file is empty
FileEntry == File("")
DirEntry == [kind |-> "dir"]

Parent(p) == SubSeq(p, 1, Len(p) - 1)

\* Path.exists(): the working directory always exists
Exists(f, p) == p = <<>> \/ p \in DOMAIN f

\* Path.is_dir()
IsDir(f, p) == p = <<>> \/ (p \in DOMAIN f /\ f[p].kind = "dir")

\* Path.is_file()
IsFile(f, p) == p \in DOMAIN f /\ f[p].kind = "file"

\* mutant: every entry below p, as os.walk would list
ChildrenDeep(f, p) == { c \in DOMAIN f : Len(c) > Len(p) /\ SubSeq(c, 1, Len(p)) = p }

\* os.scandir(p): the paths of the entries of directory p
Children(f, p) == { c \in DOMAIN f : Len(c) = Len(p) + 1 /\ Parent(c) = p }

IsPrefix(p, q) == Len(p) <= Len(q) /\ SubSeq(q, 1, Len(p)) = p

WithEntry(f, p, e) == [q \in DOMAIN f \cup {p} |-> IF q = p THEN e ELSE f[q]]

WithoutEntry(f, p) == [q \in DOMAIN f \ {p} |-> f[q]]

(* -------------------------- pattern strings ---------------------------- *)

\* the characters find_matching_paths treats as wildcards
WILDCARD_CHARS == {"*", "?", "["}

Chars(s) == { s[i] : i \in 1..Len(s) }

RECURSIVE RawSplit(_)
\* the pattern string cut at every "/"
RawSplit(s) ==
    IF s = <<>> THEN << <<>> >>
    ELSE LET r == RawSplit(Tail(s))
         IN  IF Head(s) = "/" THEN << <<>> >> \o r
             ELSE << <<Head(s)>> \o Head(r) >> \o Tail(r)

IsRealSegment(seg) == seg # <<>> /\ seg # <<".">>

\* Path(path_pattern).parts for a relative pattern: empty and "." segments
\* are dropped
Parts(s) == SelectSeq(RawSplit(s), IsRealSegment)

RECURSIVE JoinSegs(_)
\* str(tmp / "dir" / "*.txt"): segments joined by "/"
JoinSegs(segs) ==
    IF segs = <<>> THEN <<>>
    ELSE IF Len(segs) = 1 THEN segs[1]
    ELSE segs[1] \o <<"/">> \o JoinSegs(Tail(segs))

\* any(c in part for c in WILDCARD_CHARS)
HasWildcard(part) == Chars(part) \cap WILDCARD_CHARS # {}

wildcard_positions(parts) == { i \in 1..Len(parts) : HasWildcard(parts[i]) }

Min(S) == CHOOSE x \in S : \A y \in S : x <= y

(* ------------------------ fnmatch on one segment ----------------------- *)

RECURSIVE ScanToClose(_, _)
\* the first index >= j holding "]", or Len(pat) + 1
ScanToClose(pat, j) ==
    IF j > Len(pat) \/ pat[j] = "]" THEN j ELSE ScanToClose(pat, j + 1)

\* pat[1] is "[": the index of the "]" closing the class, Len(pat) + 1 when
\* the class is not closed; a leading "!" and a "]" right after are skipped
ClosePos(pat) ==
    LET j1 == IF Len(pat) >= 2 /\ pat[2] = "!" THEN 3 ELSE 2
        j2 == IF j1 <= Len(pat) /\ pat[j1] = "]" THEN j1 + 1 ELSE j1
    IN  ScanToClose(pat, j2)

\* mutant: the leading "!" is taken as a member instead of a negation
InClassIgnoresNegation(stuff, c) == c \in Chars(stuff)

\* does character c match the class whose body is stuff: "!..." is the
\* negated class (no "-" ranges in the modelled alphabet)
InClass(stuff, c) ==
    IF stuff[1] = "!" THEN c \notin Chars(Tail(stuff))
    ELSE c \in Chars(stuff)

StarTok == [t |-> "star", stuff |-> <<>>]
AnyTok == [t |-> "any", stuff |-> <<>>]
ClassTok(stuff) == [t |-> "class", stuff |-> stuff]
LitTok(c) == [t |-> "lit", stuff |-> <<c>>]

\* mutant: "?" is translated like "*"
HeadTokenQuestionAsStar(pat) ==
    IF Head(pat) = "*" THEN StarTok
    ELSE IF Head(pat) = "?" THEN StarTok
    ELSE IF Head(pat) = "[" /\ ClosePos(pat) <= Len(pat)
         THEN ClassTok(SubSeq(pat, 2, ClosePos(pat) - 1))
    ELSE LitTok(Head(pat))

\* fnmatch.translate, one step: the regular-expression piece the head of
\* pat becomes ("*" -> STAR, "?" -> ".", a closed "[...]" -> a class, an
\* unclosed "[" and any other character -> itself)
HeadToken(pat) ==
    IF Head(pat) = "*" THEN StarTok
    ELSE IF Head(pat) = "?" THEN AnyTok
    ELSE IF Head(pat) = "[" /\ ClosePos(pat) <= Len(pat)
         THEN ClassTok(SubSeq(pat, 2, ClosePos(pat) - 1))
    ELSE LitTok(Head(pat))

\* the number of pattern characters that piece stands for
HeadWidth(pat) ==
    IF Head(pat) = "[" /\ ClosePos(pat) <= Len(pat) THEN ClosePos(pat) ELSE 1

RECURSIVE Translate(_)
\* fnmatch.translate(pat) as a sequence of pieces
Translate(pat) ==
    IF pat = <<>> THEN <<>>
    ELSE <<HeadToken(pat)>> \o Translate(SubSeq(pat, HeadWidth(pat) + 1, Len(pat)))

\* does a one-character piece accept character c
TokenAccepts(tok, c) ==
    IF tok.t = "any" THEN TRUE
    ELSE IF tok.t = "class" THEN InClass(tok.stuff, c)
    ELSE c = tok.stuff[1]

RECURSIVE MatchTokens(_, _)
\* re.fullmatch of the translated pattern on name
MatchTokens(toks, name) ==
    IF toks = <<>> THEN name = <<>>
    ELSE IF Head(toks).t = "star" THEN
        \/ MatchTokens(Tail(toks), name)
        \/ name # <<>> /\ MatchTokens(toks, Tail(name))
    ELSE
        /\ name # <<>>
        /\ TokenAccepts(Head(toks), Head(name))
        /\ MatchTokens(Tail(toks), Tail(name))

\* re.compile(fnmatch.translate(pat)).fullmatch(name)
FnMatch(pat, name) == MatchTokens(Translate(pat), name)

(* ------------------------------ Path.glob ------------------------------ *)

STARSTAR == <<"*", "*">>

ContainsStarStar(part) ==
    \E i \in 1..(Len(part) - 1) : part[i] = "*" /\ part[i + 1] = "*"

\* _make_selector raises ValueError for a part that contains "**" and is
\* not "**"
InvalidGlob(patparts) ==
    \E i \in 1..Len(patparts) :
        patparts[i] # STARSTAR /\ ContainsStarStar(patparts[i])

\* mutant: the starting directory itself is left out ("**" needs one level)
DirsUnderBelowOnly(f, p) ==
    { d \in DOMAIN f : IsPrefix(p, d) /\ d # p /\ f[d].kind = "dir" }

\* _RecursiveWildcardSelector._iterate_directories: p and every directory
\* below it
DirsUnder(f, p) == {p} \cup { d \in DOMAIN f : IsPrefix(p, d) /\ f[d].kind = "dir" }

RECURSIVE SelectFrom(_, _, _)
\* _Selector._select_from: the entries below directory p that the pattern
\* parts select
SelectFrom(f, p, patparts) ==
    IF patparts = <<>> THEN {p}
    ELSE LET pat == Head(patparts)
             rest == Tail(patparts)
             dironly == rest # <<>>
         IN  IF pat = STARSTAR THEN
                 UNION { SelectFrom(f, d, rest) : d \in DirsUnder(f, p) }
             ELSE IF HasWildcard(pat) THEN
                 UNION { SelectFrom(f, c, rest) :
                           c \in { e \in Children(f, p) :
                                     /\ dironly => f[e].kind = "dir"
                                     /\ FnMatch(pat, e[Len(e)]) } }
             ELSE LET c == Append(p, pat)
                  IN  IF (IF dironly THEN IsDir(f, c) ELSE Exists(f, c))
                      THEN SelectFrom(f, c, rest) ELSE {}

\* base_dir.glob(pattern): every entry, file or directory, the pattern selects
Glob(f, base, patparts) ==
    IF IsDir(f, base) THEN SelectFrom(f, base, patparts) ELSE {}

(* ------------------------- find_matching_paths ------------------------- *)

Returned(paths) == [status |-> "returned", type |-> "", msg |-> "", paths |-> paths]

Raised(type, msg) == [status |-> "raised", type |-> type, msg |-> msg, paths |-> <<>>]

BaseNotFound == Raised("NotADirectoryError", "Base directory does not exist")

BaseNotADirectory == Raised("NotADirectoryError", "Base path is not a directory")

\* mutant: the literal branch raises with the message of the wildcard branch
NoMatchLiteralAsWildcard == Raised("FileNotFoundError", "No files found matching pattern")

NoMatchLiteral == Raised("FileNotFoundError", "No files found")

NoMatchWildcard == Raised("FileNotFoundError", "No files found matching pattern")

InvalidPattern ==
    Raised("ValueError", "Invalid pattern: '**' can only be an entire path component")

\* every order in which the entries of S can be enumerated
Orderings(S) ==
    { s \in [1..Cardinality(S) -> S] : \A i, j \in 1..Cardinality(S) : s[i] = s[j] => i = j }

\* mutant: path.exists() in place of path.is_file()
LiteralMatchesExists(f, path) == IF Exists(f, path) THEN {path} ELSE {}

\* matches = [path] if path.is_file() else []
LiteralMatches(f, path) == IF IsFile(f, path) THEN {path} ELSE {}

\* mutant: the base is the pattern's parent, path.parent
BaseDirParent(parts, first) == SubSeq(parts, 1, Len(parts) - 1)

\* Path(*path.parts[:first_wildcard_position]), Path(".") when empty
BaseDir(parts, first) == SubSeq(parts, 1, first - 1)

\* the parts of str(Path(*path.parts[first_wildcard_position:]))
GlobParts(parts, first) == SubSeq(parts, first, Len(parts))

\* mutant: the existence check is missing
CheckBaseNoExistsCheck(f, base) ==
    IF ~IsDir(f, base) THEN BaseNotADirectory
    ELSE Returned(<<>>)

\* mutant: the is_dir check is missing
CheckBaseNoDirCheck(f, base) ==
    IF ~Exists(f, base) THEN BaseNotFound
    ELSE Returned(<<>>)

\* the two checks on base_dir; Returned(<<>>) stands for "both passed"
CheckBase(f, base) ==
    IF ~Exists(f, base) THEN BaseNotFound
    ELSE IF ~IsDir(f, base) THEN BaseNotADirectory
    ELSE Returned(<<>>)

\* mutant: the is_file filter is missing
WildcardMatchesUnfiltered(f, base, patparts) == Glob(f, base, patparts)

\* [f for f in base_dir.glob(pattern) if f.is_file()]
WildcardMatches(f, base, patparts) == { m \in Glob(f, base, patparts) : IsFile(f, m) }

\* mutant: an empty result raises whatever the flag says
FinishIgnoresFlag(matches, raise_error_if_no_match, noMatch) ==
    IF matches = {} THEN {noMatch}
    ELSE { Returned(s) : s \in Orderings(matches) }

\* if raise_error_if_no_match and not matches: raise ...; return matches
Finish(matches, raise_error_if_no_match, noMatch) ==
    IF raise_error_if_no_match /\ matches = {} THEN {noMatch}
    ELSE { Returned(s) : s \in Orderings(matches) }

\* the outcomes a call can have: the error it raises, or the list it returns
\* in one of the orders the directory enumeration can produce
find_matching_paths(f, path_pattern, raise_error_if_no_match) ==
    LET parts == Parts(path_pattern)
        positions == wildcard_positions(parts)
    IN  IF positions = {} THEN
            Finish(LiteralMatches(f, parts), raise_error_if_no_match, NoMatchLiteral)
        ELSE
            LET first == Min(positions)
                base == BaseDir(parts, first)
                patparts == GlobParts(parts, first)
            IN  IF CheckBase(f, base).status = "raised" THEN {CheckBase(f, base)}
                ELSE IF InvalidGlob(patparts) THEN {InvalidPattern}
                ELSE Finish(WildcardMatches(f, base, patparts),
                            raise_error_if_no_match, NoMatchWildcard)

(* ------------ find_matching_paths, one filesystem read at a time ------------ *)

\* the path and its ancestors, the working directory excluded
Prefixes(p) == { SubSeq(p, 1, k) : k \in 1..Len(p) }

\* a regular file stands where the path needs a directory: one of its
\* ancestors is a file
BelowFile(f, p) == \E q \in Prefixes(p) : q # p /\ IsFile(f, q)

\* the error os.scandir raises for a path that is not a directory: ENOTDIR
\* for a file and for a path below a file, ENOENT for a path that is not there
ScandirError(f, p) ==
    IF Exists(f, p) \/ BelowFile(f, p)
    THEN Raised("NotADirectoryError", "[Errno 20] Not a directory")
    ELSE Raised("FileNotFoundError", "[Errno 2] No such file or directory")

\* a selector still to be run: the pattern parts left to match below dir;
\* scan marks the part of _iterate_directories that lists dir for "**"
Item(dir, parts, scan) == [dir |-> dir, parts |-> parts, scan |-> scan]

\* a call of find_matching_paths that has not read the filesystem yet: pc
\* names its next read, stack holds the selectors still to be run, yielded
\* what glob has produced, matches the list built so far
FindCall(path_pattern, raise_error_if_no_match) ==
    [op |-> "find_matching_paths", pattern |-> path_pattern,
     flag |-> raise_error_if_no_match, pc |-> "start", stack |-> <<>>,
     yielded |-> {}, matches |-> <<>>, outcome |-> Returned(<<>>)]

FindEnds(c, outcome) == [c EXCEPT !.pc = "done", !.stack = <<>>, !.outcome = outcome]

\* if raise_error_if_no_match and not matches: raise ...; return matches
FindFinishes(c, noMatch) ==
    IF c.flag /\ c.matches = <<>> THEN FindEnds(c, noMatch)
    ELSE FindEnds(c, Returned(c.matches))

\* mutant: only the first entry of a listing is followed
SuccessorsFirstOnly(s, parts) == [i \in 1..Min({1, Len(s)}) |-> Item(s[i], parts, FALSE)]

\* the selectors that follow a listing of the entries in the order s
Successors(s, parts) == [i \in 1..Len(s) |-> Item(s[i], parts, FALSE)]

RECURSIVE Visits(_, _)
\* for "**": each directory of s is a starting point of the successor and
\* is then listed itself
Visits(s, parts) ==
    IF s = <<>> THEN <<>>
    ELSE <<Item(Head(s), parts, FALSE), Item(Head(s), parts, TRUE)>> \o Visits(Tail(s), parts)

\* the selector on top of the stack runs up to its next read of the
\* filesystem: the calls that can result
select_step(f, c) ==
    LET it == Head(c.stack)
        below == Tail(c.stack)
        pat == Head(it.parts)
        rest == Tail(it.parts)
        dironly == rest # <<>>
    IN  IF it.scan THEN
            \* _iterate_directories: scandir(parent_path), then every
            \* directory entry in turn
            IF ~IsDir(f, it.dir) THEN {FindEnds(c, ScandirError(f, it.dir))}
            ELSE { [c EXCEPT !.stack = Visits(s, it.parts) \o below] :
                     s \in Orderings({ e \in Children(f, it.dir) : f[e].kind = "dir" }) }
        ELSE IF it.parts = <<>> THEN
            \* _TerminatingSelector yields the path; the list comprehension
            \* keeps it if f.is_file()
            IF it.dir \in c.yielded THEN {[c EXCEPT !.stack = below]}
            ELSE {[c EXCEPT !.stack = below,
                            !.yielded = @ \cup {it.dir},
                            !.matches = IF IsFile(f, it.dir) THEN Append(@, it.dir) ELSE @]}
        ELSE IF pat = STARSTAR THEN
            \* _RecursiveWildcardSelector: parent_path is the first starting point
            {[c EXCEPT !.stack = Visits(<<it.dir>>, rest) \o below]}
        ELSE IF HasWildcard(pat) THEN
            \* _WildcardSelector: scandir(parent_path), then the matching entries
            IF ~IsDir(f, it.dir) THEN {FindEnds(c, ScandirError(f, it.dir))}
            ELSE { [c EXCEPT !.stack = Successors(s, rest) \o below] :
                     s \in Orderings({ e \in Children(f, it.dir) :
                                         /\ dironly => f[e].kind = "dir"
                                         /\ FnMatch(pat, e[Len(e)]) }) }
        ELSE
            \* _PreciseSelector: is_dir or exists of the one child
            LET child == Append(it.dir, pat)
            IN  IF (IF dironly THEN IsDir(f, child) ELSE Exists(f, child))
                THEN {[c EXCEPT !.stack = <<Item(child, rest, FALSE)>> \o below]}
                ELSE {[c EXCEPT !.stack = below]}

\* one read of the filesystem f by the call c whose next read is c.pc: the
\* calls that can result
find_step(f, c) ==
    LET parts == Parts(c.pattern)
        positions == wildcard_positions(parts)
        base == BaseDir(parts, Min(positions))
        patparts == GlobParts(parts, Min(positions))
    IN  IF c.pc = "start" THEN
            \* the literal branch reads path.is_file(); the wildcard branch
            \* goes on to the checks of the base directory
            IF positions = {}
            THEN {FindFinishes([c EXCEPT !.matches = IF IsFile(f, parts) THEN <<parts>> ELSE <<>>],
                               NoMatchLiteral)}
            ELSE {[c EXCEPT !.pc = "exists"]}
        ELSE IF c.pc = "exists" THEN
            \* if not base_dir.exists()
            IF ~Exists(f, base) THEN {FindEnds(c, BaseNotFound)}
            ELSE {[c EXCEPT !.pc = "is_dir"]}
        ELSE IF c.pc = "is_dir" THEN
            \* if not base_dir.is_dir()
            IF ~IsDir(f, base) THEN {FindEnds(c, BaseNotADirectory)}
            ELSE {[c EXCEPT !.pc = "glob"]}
        ELSE IF c.pc = "glob" THEN
            \* base_dir.glob(pattern): _make_selector, then select_from tests
            \* is_dir(parent_path)
            IF InvalidGlob(patparts) THEN {FindEnds(c, InvalidPattern)}
            ELSE IF ~IsDir(f, base) THEN {[c EXCEPT !.pc = "walk"]}
            ELSE {[c EXCEPT !.pc = "walk", !.stack = <<Item(base, patparts, FALSE)>>]}
        ELSE IF c.stack = <<>> THEN {FindFinishes(c, NoMatchWildcard)}
        ELSE select_step(f, c)

\* mutant: a missing base directory is created (base_dir.mkdir(exist_ok=True))
FsAfterFindMkdirBase(f, path_pattern) ==
    LET parts == Parts(path_pattern)
        positions == wildcard_positions(parts)
        base == IF positions = {} THEN <<>> ELSE BaseDir(parts, Min(positions))
    IN  IF base # <<>> /\ base \notin DOMAIN f /\ IsDir(f, Parent(base))
        THEN WithEntry(f, base, DirEntry) ELSE f

\* the filesystem a call leaves behind: the function only reads
FsAfterFind(f, path_pattern) == f

(* ----------------------------- delete_file ----------------------------- *)

\* how a call of move_file or delete_file ends: the value it returns
\* ("True", "False", "None", or "destination" for the path held by the
\* variable destination), or the exception it raises
Gave(value) == [status |-> "returned", type |-> "", msg |-> "", value |-> value]

Threw(type, msg) == [status |-> "raised", type |-> type, msg |-> msg, value |-> "nothing"]

\* the error of the operating system for a path that is not there: ENOTDIR
\* when an ancestor is a regular file, ENOENT otherwise
MissingError(f, p) ==
    IF BelowFile(f, p) THEN Threw("NotADirectoryError", "[Errno 20] Not a directory")
    ELSE Threw("FileNotFoundError", "[Errno 2] No such file or directory")

\* Path.unlink(): removes a file; for a directory the operating system
\* answers EISDIR, for a path that is not there ENOENT or ENOTDIR, and
\* nothing is removed
Unlink(f, path) ==
    IF IsDir(f, path)
    THEN [fs |-> f, outcome |-> Threw("IsADirectoryError", "[Errno 21] Is a directory")]
    ELSE IF ~Exists(f, path)
    THEN [fs |-> f, outcome |-> MissingError(f, path)]
    ELSE [fs |-> WithoutEntry(f, path), outcome |-> Gave("None")]

\* mutant: a missing path is an error and a deletion returns nothing
delete_fileRaising(f, path) ==
    IF ~Exists(f, path) THEN [fs |-> f, outcome |-> Threw("FileNotFoundError", "File not found")]
    ELSE IF IsDir(f, path)
    THEN [fs |-> f, outcome |-> Threw("IsADirectoryError", "Path is not a file")]
    ELSE [fs |-> WithoutEntry(f, path), outcome |-> Gave("None")]

\* if path.exists(): path.unlink(); return True -- else return False
delete_file(f, path) ==
    IF ~Exists(f, path) THEN [fs |-> f, outcome |-> Gave("False")]
    ELSE IF Unlink(f, path).outcome.status = "raised" THEN Unlink(f, path)
    ELSE [fs |-> Unlink(f, path).fs, outcome |-> Gave("True")]

\* a call of delete_file that has not run any statement yet
DeleteCall == [pc |-> "exists", outcome |-> Gave("nothing")]

\* one statement of delete_file(path), run on filesystem f by the call c
\* whose next statement is c.pc: the filesystem and the call afterwards
delete_step(f, path, c) ==
    IF c.pc = "exists" THEN
        \* if path.exists(): ... -- else return False
        IF Exists(f, path) THEN [fs |-> f, call |-> [c EXCEPT !.pc = "unlink"]]
        ELSE [fs |-> f, call |-> [pc |-> "done", outcome |-> Gave("False")]]
    ELSE
        \* path.unlink(); return True
        LET r == Unlink(f, path)
        IN  IF r.outcome.status = "raised"
            THEN [fs |-> r.fs, call |-> [pc |-> "done", outcome |-> r.outcome]]
            ELSE [fs |-> r.fs, call |-> [pc |-> "done", outcome |-> Gave("True")]]

(* ------------------------------ move_file ------------------------------ *)

\* the names find.py binds at module level: its one import, its constant and
\* its three functions
ModuleGlobals == {"Path", "WILDCARD_CHARS", "find_matching_paths", "move_file", "delete_file"}

\* a call of Path.mkdir still to be made: self, and its argument parents
MkdirItem(dir, parents) == [dir |-> dir, parents |-> parents]

\* one os.mkdir made by the Path.mkdir(exist_ok=True) on top of the stack:
\* an existing directory is accepted, a missing parent makes mkdir call
\* itself on the parent and then once more, without parents, on the path
mkdir_step(f, stack) ==
    LET t == Head(stack).dir
        done == [fs |-> f, stack |-> Tail(stack), outcome |-> Gave("None")]
    IN  IF IsDir(f, t) THEN done
        ELSE IF IsFile(f, t)
        THEN [fs |-> f, stack |-> <<>>,
              outcome |-> Threw("FileExistsError", "[Errno 17] File exists")]
        ELSE IF BelowFile(f, t)
        THEN [fs |-> f, stack |-> <<>>,
              outcome |-> Threw("NotADirectoryError", "[Errno 20] Not a directory")]
        ELSE IF ~IsDir(f, Parent(t)) THEN
            IF Head(stack).parents
            THEN [fs |-> f,
                  stack |-> <<MkdirItem(Parent(t), TRUE), MkdirItem(t, FALSE)>> \o Tail(stack),
                  outcome |-> Gave("None")]
            ELSE [fs |-> f, stack |-> <<>>,
                  outcome |-> Threw("FileNotFoundError", "[Errno 2] No such file or directory")]
        ELSE [fs |-> WithEntry(f, t, DirEntry), stack |-> Tail(stack), outcome |-> Gave("None")]

RECURSIVE RunMkdir(_, _)
\* the os.mkdir calls made one after the other until none is left or one fails
RunMkdir(f, stack) ==
    IF stack = <<>> THEN [fs |-> f, outcome |-> Gave("None")]
    ELSE LET r == mkdir_step(f, stack)
         IN  IF r.outcome.status = "raised" THEN [fs |-> r.fs, outcome |-> r.outcome]
             ELSE RunMkdir(r.fs, r.stack)

\* Path.mkdir(parents=True, exist_ok=True) as a whole: every missing
\* directory down to p is created; a file on the way, or at p itself, makes
\* it fail
MkdirParents(f, p) == RunMkdir(f, <<MkdirItem(p, TRUE)>>)

\* shutil.copy2(src, dst) for a module that has imported shutil: dst is
\* taken as dst/<name of src> when it is a directory; copyfile refuses to
\* copy a file onto itself, then opens src for reading, then dst for
\* writing, and the text of src is written to dst
Copy2(f, src, dst) ==
    LET into == IF IsDir(f, dst) THEN Append(dst, src[Len(src)]) ELSE dst
    IN  IF Exists(f, src) /\ into = src
        THEN [fs |-> f, outcome |-> Threw("SameFileError", "are the same file")]
        ELSE IF ~Exists(f, src)
        THEN [fs |-> f, outcome |-> MissingError(f, src)]
        ELSE IF IsDir(f, src)
        THEN [fs |-> f, outcome |-> Threw("IsADirectoryError", "[Errno 21] Is a directory")]
        ELSE IF IsDir(f, into)
        THEN [fs |-> f, outcome |-> Threw("IsADirectoryError", "[Errno 21] Is a directory")]
        ELSE IF ~IsDir(f, Parent(into))
        THEN [fs |-> f, outcome |-> MissingError(f, into)]
        ELSE [fs |-> WithEntry(f, into, File(f[src].content)), outcome |-> Gave("dst")]

\* the statement shutil.copy2(src=source, dst=destination) inside find.py:
\* looking up the name shutil comes first
CopyStatement(f, src, dst) ==
    IF "shutil" \notin ModuleGlobals
    THEN [fs |-> f, outcome |-> Threw("NameError", "name 'shutil' is not defined")]
    ELSE Copy2(f, src, dst)

\* mutant: the call starts after the test of source.exists()
MoveCallSkipsCheck(f, source, destination, delete_original) ==
    [op |-> "move_file", pc |-> "resolve", source |-> source, destination |-> destination,
     target |-> destination, delete_original |-> delete_original, before |-> f,
     mkdirs |-> <<>>, interrupted |-> FALSE, outcome |-> Gave("nothing")]

\* a call of move_file that has not run any statement yet: pc names its
\* next statement, target is the local variable destination, mkdirs the
\* calls of Path.mkdir still to be made, before the filesystem it was
\* called on
MoveCall(f, source, destination, delete_original) ==
    [op |-> "move_file", pc |-> "check", source |-> source, destination |-> destination,
     target |-> destination, delete_original |-> delete_original, before |-> f,
     mkdirs |-> <<>>, interrupted |-> FALSE, outcome |-> Gave("nothing")]

MoveEnds(m, outcome) == [m EXCEPT !.pc = "done", !.outcome = outcome]

\* one step of move_file, run on filesystem f by the call m whose next
\* statement is m.pc: a statement, or one os.mkdir of the statement that
\* creates the parents; the filesystem and the call afterwards
move_step(f, m) ==
    IF m.pc = "check" THEN
        \* if not source.exists(): raise FileNotFoundError
        IF ~Exists(f, m.source)
        THEN [fs |-> f, call |-> MoveEnds(m, Threw("FileNotFoundError", "File not found"))]
        ELSE [fs |-> f, call |-> [m EXCEPT !.pc = "resolve"]]
    ELSE IF m.pc = "resolve" THEN
        \* if destination.is_dir(): destination = destination / source.name
        LET target == IF IsDir(f, m.destination)
                      THEN Append(m.destination, m.source[Len(m.source)])
                      ELSE m.destination
        IN  [fs |-> f,
             call |-> [m EXCEPT !.pc = "mkdir", !.target = target,
                                !.mkdirs = <<MkdirItem(Parent(target), TRUE)>>]]
    ELSE IF m.pc = "mkdir" THEN
        \* destination.parent.mkdir(parents=True, exist_ok=True), one
        \* os.mkdir at a time
        LET r == mkdir_step(f, m.mkdirs)
        IN  IF r.outcome.status = "raised"
            THEN [fs |-> r.fs, call |-> MoveEnds([m EXCEPT !.mkdirs = <<>>], r.outcome)]
            ELSE [fs |-> r.fs,
                  call |-> [m EXCEPT !.mkdirs = r.stack,
                                     !.pc = IF r.stack = <<>> THEN "copy" ELSE "mkdir"]]
    ELSE IF m.pc = "copy" THEN
        \* shutil.copy2(src=source, dst=destination)
        LET r == CopyStatement(f, m.source, m.target)
        IN  IF r.outcome.status = "raised"
            THEN [fs |-> r.fs, call |-> MoveEnds(m, r.outcome)]
            ELSE [fs |-> r.fs, call |-> [m EXCEPT !.pc = "unlink"]]
    ELSE IF m.pc = "unlink" THEN
        \* if delete_original: source.unlink()
        LET r == IF m.delete_original THEN Unlink(f, m.source)
                 ELSE [fs |-> f, outcome |-> Gave("None")]
        IN  IF r.outcome.status = "raised"
            THEN [fs |-> r.fs, call |-> MoveEnds(m, r.outcome)]
            ELSE [fs |-> r.fs, call |-> [m EXCEPT !.pc = "return"]]
    ELSE
        \* return destination (the path m.target)
        [fs |-> f, call |-> MoveEnds(m, Gave("destination"))]

RECURSIVE RunMove(_, _)
\* the statements of the call m run one after the other to its end
RunMove(f, m) ==
    IF m.pc = "done" THEN [fs |-> f, call |-> m]
    ELSE LET r == move_step(f, m) IN RunMove(r.fs, r.call)

\* a whole call of move_file: the filesystem it leaves and how it ended
move_file(f, source, destination, delete_original) ==
    RunMove(f, MoveCall(f, source, destination, delete_original))

(* ------------------------------- inputs -------------------------------- *)

A == <<"a">>
A1 == <<"a", "1">>
A2 == <<"a", "2">>
A12 == <<"a", "1", "2">>
DOT == <<".">>

\* wildcard-bearing segments: * ? a? a?? a1* *2 a[12] a[2] a[!1] ** a**
WildSegs ==
    { <<"*">>, <<"?">>, <<"a", "?">>, <<"a", "?", "?">>, <<"a", "1", "*">>, <<"*", "2">>,
      <<"a", "[", "1", "2", "]">>, <<"a", "[", "2", "]">>, <<"a", "[", "!", "1", "]">>,
      STARSTAR, <<"a", "*", "*">> }

\* what follows the base directory in a wildcard pattern
Tails ==
    { <<w>> : w \in WildSegs }
        \cup { <<<<"*">>, A>>, <<<<"*">>, <<"*">>>>, <<STARSTAR, <<"*">>>>, <<STARSTAR, A1>> }

\* literal prefixes of a wildcard pattern
Bases == { <<>>, <<A>> }

\* wildcard patterns with a two-segment base, and with "." segments
DeepPatterns ==
    { <<A, A1, <<"*">>>>, <<A, A1, <<"a", "*", "*">>>>, <<A, A, <<"*">>>>,
      <<DOT, <<"*">>>>, <<A, DOT, <<"?">>>> }

LiteralSegs == { <<>>, <<DOT>>, <<A>>, <<A1>>, <<A2>>, <<A12>>, <<A, A>>, <<A, A1>>, <<DOT, A>> }

Patterns ==
    { JoinSegs(b \o t) : b \in Bases, t \in Tails }
        \cup { JoinSegs(l) : l \in LiteralSegs }
        \cup { JoinSegs(d) : d \in DeepPatterns }

\* the names the test set-up gives to directories
DirNames == { A }

\* the working directory and the directories the filesystem holds
ExistingDirs(f) == {<<>>} \cup { d \in DOMAIN f : f[d].kind = "dir" }

\* the paths one step below an existing directory
NewPaths(f) == { Append(d, n) : d \in ExistingDirs(f), n \in Names }

NewDirPaths(f) == { Append(d, n) : d \in ExistingDirs(f), n \in DirNames }

\* the text the tests write into a file
Texts == { "x" }

\* the names of the files and directories the file operations work on
MoveNames == { A, A1 }

\* the paths move_file and delete_file are called with: a name, below up to
\* two levels of "a"
MovePaths ==
    { <<n>> : n \in MoveNames } \cup { <<A, n>> : n \in MoveNames }
        \cup { <<A, A, n>> : n \in MoveNames }

\* those of them one step below an existing directory
MoveNewPaths(f) == { p \in MovePaths : Parent(p) \in ExistingDirs(f) }

\* the patterns of the calls that run while another process changes the
\* filesystem: a/*  a/*/a1  a/**/a1  *  and the literal a/a1
RacePatterns ==
    { JoinSegs(<<A, <<"*">>>>), JoinSegs(<<A, <<"*">>, A1>>), JoinSegs(<<A, STARSTAR, A1>>),
      <<"*">>, JoinSegs(<<A, A1>>) }

(* ------------------------------ the model ------------------------------ *)

NoCall == [op |-> "none"]

Init ==
    /\ fs = EmptyFs
    /\ last = NoCall
    /\ prev = NoCall

\* test set-up: (tmp / ...).touch()
Touch(p) ==
    /\ Cardinality(DOMAIN fs) < MaxEntries
    /\ p \notin DOMAIN fs
    /\ fs' = WithEntry(fs, p, FileEntry)
    /\ last' = NoCall
    /\ prev' = NoCall

\* test set-up: (tmp / ...).mkdir()
Mkdir(p) ==
    /\ Cardinality(DOMAIN fs) < MaxEntries
    /\ p \notin DOMAIN fs
    /\ fs' = WithEntry(fs, p, DirEntry)
    /\ last' = NoCall
    /\ prev' = NoCall

\* one call of delete_file; the record keeps the filesystem it started on
DeleteFile(p) ==
    /\ fs' = delete_file(fs, p).fs
    /\ last' = [op |-> "delete_file", path |-> p, before |-> fs,
                outcome |-> delete_file(fs, p).outcome]
    /\ prev' = NoCall

\* one call of find_matching_paths; prev keeps the call before it when that
\* was the same request on the same filesystem
Find(p, r) ==
    \E o \in find_matching_paths(fs, p, r) :
        /\ fs' = FsAfterFind(fs, p)
        /\ last' = [op |-> "find_matching_paths", pattern |-> p, flag |-> r, outcome |-> o]
        /\ prev' = IF last.op = "find_matching_paths" /\ last.pattern = p /\ last.flag = r
                   THEN last ELSE NoCall

\* test set-up: (tmp / ...).write_text(c), on a new or an existing file
WriteText(p, c) ==
    /\ p \in DOMAIN fs \/ Cardinality(DOMAIN fs) < MaxEntries
    /\ ~IsDir(fs, p)
    /\ fs' = WithEntry(fs, p, File(c))
    /\ last' = NoCall
    /\ prev' = NoCall

\* one whole call of move_file
MoveFile(source, destination, delete_original) ==
    LET r == move_file(fs, source, destination, delete_original)
    IN  /\ Cardinality(DOMAIN r.fs) <= MaxEntries
        /\ fs' = r.fs
        /\ last' = r.call
        /\ prev' = NoCall

\* a call of move_file is under way
MoveRunning == last.op = "move_file" /\ last.pc # "done" /\ ~last.interrupted

\* move_file is called; its statements are run one by one by MoveStep
StartMove(source, destination, delete_original) ==
    /\ ~MoveRunning
    /\ Cardinality(DOMAIN move_file(fs, source, destination, delete_original).fs) <= MaxEntries
    /\ fs' = fs
    /\ last' = MoveCall(fs, source, destination, delete_original)
    /\ prev' = NoCall

\* the call under way runs its next statement
MoveStep ==
    /\ MoveRunning
    /\ fs' = move_step(fs, last).fs
    /\ last' = move_step(fs, last).call
    /\ prev' = NoCall

\* the process is stopped between two steps: move_file has no handler
\* that would undo what it has done so far
Interrupt ==
    /\ MoveRunning
    /\ fs' = fs
    /\ last' = [last EXCEPT !.interrupted = TRUE]
    /\ prev' = NoCall

\* a call of find_matching_paths is under way
FindRunning == last.op = "find_matching_paths" /\ last.pc # "done"

\* find_matching_paths is called; its reads are made one by one by FindStep.
\* prev keeps the call before it when that one had the same arguments and
\* the filesystem has not changed since
StartFind(p, r) ==
    /\ ~FindRunning
    /\ fs' = fs
    /\ last' = FindCall(p, r)
    /\ prev' = IF last.op = "find_matching_paths" /\ last.pattern = p /\ last.flag = r
               THEN last ELSE NoCall

\* the call under way makes its next read
FindStep ==
    /\ FindRunning
    /\ fs' = fs
    /\ last' \in find_step(fs, last)
    /\ prev' = prev

\* what is left when p and everything below it is removed
WithoutTree(f, p) == [q \in { q \in DOMAIN f : ~IsPrefix(p, q) } |-> f[q]]

\* another process removes p, with what it holds, while the call runs
RemoveTree(p) ==
    /\ FindRunning
    /\ p \in DOMAIN fs
    /\ fs' = WithoutTree(fs, p)
    /\ last' = last
    /\ prev' = NoCall

\* another process puts a file in the place of directory p while the call runs
ReplaceByFile(p) ==
    /\ FindRunning
    /\ p \in DOMAIN fs /\ fs[p].kind = "dir"
    /\ fs' = WithEntry(WithoutTree(fs, p), p, FileEntry)
    /\ last' = last
    /\ prev' = NoCall

\* the two callers of delete_file
Callers == { 1, 2 }

\* two calls of delete_file on one path are under way
DeletesRunning ==
    last.op = "delete_file twice" /\ \E i \in Callers : last.calls[i].pc # "done"

\* two callers call delete_file(p) at the same time
StartDeletes(p) ==
    /\ ~DeletesRunning
    /\ fs' = fs
    /\ last' = [op |-> "delete_file twice", path |-> p, before |-> fs,
                calls |-> [i \in Callers |-> DeleteCall]]
    /\ prev' = NoCall

\* caller i runs the next statement of its call
DeleteStep(i) ==
    /\ DeletesRunning
    /\ last.calls[i].pc # "done"
    /\ fs' = delete_step(fs, last.path, last.calls[i]).fs
    /\ last' = [last EXCEPT !.calls[i] = delete_step(fs, last.path, last.calls[i]).call]
    /\ prev' = NoCall

Next ==
    \/ \E p \in NewPaths(fs) : Touch(p)
    \/ \E p \in NewDirPaths(fs) : Mkdir(p)
    \/ \E p \in NewPaths(fs) : DeleteFile(p)
    \/ \E p \in Patterns, r \in BOOLEAN : Find(p, r)

Spec == Init /\ [][Next]_vars

\* the file operations, each call as one step
NextMove ==
    \/ \E p \in MoveNewPaths(fs) : Touch(p)
    \/ \E p \in MoveNewPaths(fs) \cap NewDirPaths(fs) : Mkdir(p)
    \/ \E p \in MoveNewPaths(fs), c \in Texts : WriteText(p, c)
    \/ \E p \in MovePaths : DeleteFile(p)
    \/ \E s \in MovePaths, d \in MovePaths, del \in BOOLEAN : MoveFile(s, d, del)

SpecMove == Init /\ [][NextMove]_vars

\* move_file statement by statement, with the process stopped at any point
NextMoveSteps ==
    \/ ~MoveRunning /\ \E p \in MoveNewPaths(fs) : Touch(p)
    \/ ~MoveRunning /\ \E p \in MoveNewPaths(fs) \cap NewDirPaths(fs) : Mkdir(p)
    \/ ~MoveRunning /\ \E p \in MoveNewPaths(fs), c \in Texts : WriteText(p, c)
    \/ \E s \in MovePaths, d \in MovePaths, del \in BOOLEAN : StartMove(s, d, del)
    \/ MoveStep
    \/ Interrupt

SpecMoveSteps == Init /\ [][NextMoveSteps]_vars

\* find_matching_paths read by read, with another process removing or
\* replacing directories in between
NextFindRace ==
    \/ ~FindRunning /\ \E p \in MoveNewPaths(fs) : Touch(p)
    \/ ~FindRunning /\ \E p \in MoveNewPaths(fs) \cap NewDirPaths(fs) : Mkdir(p)
    \/ \E p \in RacePatterns, r \in BOOLEAN : StartFind(p, r)
    \/ FindStep
    \/ \E p \in DOMAIN fs : RemoveTree(p)
    \/ \E p \in DOMAIN fs : ReplaceByFile(p)

SpecFindRace == Init /\ [][NextFindRace]_vars

\* find_matching_paths read by read, call after call, the filesystem
\* changing only between calls
NextFindSteps ==
    \/ ~FindRunning /\ \E p \in NewPaths(fs) : Touch(p)
    \/ ~FindRunning /\ \E p \in NewDirPaths(fs) : Mkdir(p)
    \/ \E p \in Patterns, r \in BOOLEAN : StartFind(p, r)
    \/ FindStep

SpecFindSteps == Init /\ [][NextFindSteps]_vars

\* two calls of delete_file on one path, their statements interleaved
NextDeleteRace ==
    \/ ~DeletesRunning /\ \E p \in MoveNewPaths(fs) : Touch(p)
    \/ ~DeletesRunning /\ \E p \in MoveNewPaths(fs) \cap NewDirPaths(fs) : Mkdir(p)
    \/ \E p \in MovePaths : StartDeletes(p)
    \/ \E i \in Callers : DeleteStep(i)

SpecDeleteRace == Init /\ [][NextDeleteRace]_vars

TypeOK ==
    /\ \A p \in DOMAIN fs : fs[p].kind \in {"file", "dir"} /\ IsDir(fs, Parent(p))
    /\ Cardinality(DOMAIN fs) <= MaxEntries
    /\ last.op \in {"none", "delete_file", "delete_file twice", "find_matching_paths", "move_file"}

(* ------------------------------ properties ----------------------------- *)

\* the state records a call of find_matching_paths on the current filesystem
IsFind == last.op = "find_matching_paths"

CallParts == Parts(last.pattern)

\* no character of the pattern is a wildcard character
CallIsLiteral == Chars(last.pattern) \cap WILDCARD_CHARS = {}

\* the first segment that holds a wildcard character
FirstWildcard ==
    CHOOSE i \in 1..Len(CallParts) :
        /\ Chars(CallParts[i]) \cap WILDCARD_CHARS # {}
        /\ \A j \in 1..(i - 1) : Chars(CallParts[j]) \cap WILDCARD_CHARS = {}

\* the segments before the first wildcard segment, and those from it on
CallBase == SubSeq(CallParts, 1, FirstWildcard - 1)
CallTail == SubSeq(CallParts, FirstWildcard, Len(CallParts))

CallReturned == last.outcome.status = "returned"
CallRaised == last.outcome.status = "raised"

\* the members of the returned list
ResultSet == { last.outcome.paths[i] : i \in 1..Len(last.outcome.paths) }

RegularFile(p) == p \in DOMAIN fs /\ fs[p].kind = "file"
Directory(p) == p = <<>> \/ (p \in DOMAIN fs /\ fs[p].kind = "dir")

\* C1: a pattern without wildcard characters, called with
\* raise_error_if_no_match false, returns the one-element list holding the
\* pattern's path when that path is a regular file, and the empty list when
\* the path is missing or is a directory.
C1_LiteralPattern ==
    (IsFind /\ CallIsLiteral /\ ~last.flag) =>
        last.outcome = IF RegularFile(CallParts) THEN Returned(<<CallParts>>)
                       ELSE Returned(<<>>)

\* a literal two-segment pattern found its file
C1_Witness ==
    /\ IsFind /\ CallIsLiteral /\ ~last.flag
    /\ Len(CallParts) = 2
    /\ RegularFile(CallParts)
    /\ last.outcome = Returned(<<CallParts>>)

\* C2: a wildcard pattern whose base directory does not exist fails with the
\* base-not-found error for both values of the flag; it neither returns a
\* list nor fails with the no-match error.
C2_BaseNotFound ==
    (IsFind /\ ~CallIsLiteral /\ CallBase # <<>> /\ CallBase \notin DOMAIN fs) =>
        /\ last.outcome = BaseNotFound
        /\ ~CallReturned
        /\ last.outcome.type # "FileNotFoundError"

\* the flag is set, the first base segment exists and the second does not
C2_Witness ==
    /\ IsFind /\ ~CallIsLiteral /\ last.flag
    /\ Len(CallBase) = 2
    /\ Directory(<<CallBase[1]>>) /\ CallBase \notin DOMAIN fs
    /\ last.outcome = BaseNotFound

\* C3: a wildcard pattern whose base path is a regular file fails with the
\* base-not-a-directory error, whose message differs from the
\* base-not-found one, for both values of the flag.
C3_BaseNotADirectory ==
    (IsFind /\ ~CallIsLiteral /\ RegularFile(CallBase)) =>
        /\ last.outcome = BaseNotADirectory
        /\ last.outcome.msg # BaseNotFound.msg

\* the flag is set and the base is a file
C3_Witness ==
    /\ IsFind /\ ~CallIsLiteral /\ last.flag
    /\ RegularFile(CallBase)
    /\ last.outcome = BaseNotADirectory

\* C4: every path of a returned list is a regular file of the filesystem the
\* call ran on; a directory is never returned.
C4_OnlyRegularFiles ==
    (IsFind /\ CallReturned) => \A p \in ResultSet : RegularFile(p) /\ ~Directory(p)

\* a wildcard call returned files while a directory matched the pattern too
C4_Witness ==
    /\ IsFind /\ ~CallIsLiteral /\ CallReturned
    /\ ResultSet # {}
    /\ \E d \in Glob(fs, CallBase, CallTail) : d # <<>> /\ Directory(d)

\* the regular files the pattern selects on the current filesystem
CallMatches ==
    IF CallIsLiteral THEN { p \in {CallParts} : RegularFile(p) }
    ELSE { m \in Glob(fs, CallBase, CallTail) : RegularFile(m) }

\* the call reached the no-match test: literal branch, or a wildcard pattern
\* with a valid base directory that Path.glob accepts
CallFiltered == CallIsLiteral \/ (Directory(CallBase) /\ ~InvalidGlob(CallTail))

\* C5: in both branches, an empty filtered result with the flag set fails
\* with the no-match error, an empty filtered result with the flag clear
\* returns the empty list, and a non-empty result is returned whatever the
\* flag is.
C5_NoMatchPolicy ==
    (IsFind /\ CallFiltered) =>
        /\ (CallMatches = {} /\ last.flag) =>
              /\ CallRaised /\ last.outcome.type = "FileNotFoundError"
              /\ last.outcome = IF CallIsLiteral THEN NoMatchLiteral ELSE NoMatchWildcard
        /\ (CallMatches = {} /\ ~last.flag) => last.outcome = Returned(<<>>)
        /\ CallMatches # {} =>
              /\ CallReturned
              /\ ResultSet = CallMatches
              /\ Len(last.outcome.paths) = Cardinality(CallMatches)

\* a wildcard call with the flag set found only a directory and raised
C5_Witness ==
    /\ IsFind /\ ~CallIsLiteral /\ last.flag
    /\ Directory(CallBase)
    /\ \E d \in Glob(fs, CallBase, CallTail) : d # <<>> /\ Directory(d)
    /\ last.outcome = NoMatchWildcard

SameOutcome(o1, o2) ==
    /\ o1.status = o2.status
    /\ o1.type = o2.type
    /\ o1.msg = o2.msg
    /\ { o1.paths[i] : i \in 1..Len(o1.paths) } = { o2.paths[i] : i \in 1..Len(o2.paths) }

\* the call under way has ended and the call before it, on the same
\* filesystem, had the same pattern and flag
SecondCallDone ==
    /\ last.op = "find_matching_paths" /\ last.pc = "done"
    /\ prev.op = "find_matching_paths"
    /\ prev.pattern = last.pattern /\ prev.flag = last.flag

\* C6: two successive calls with the same pattern and flag and no change of
\* the filesystem between them end the same way: the same error, or lists
\* with the same members (the order may differ). Each call makes its own
\* reads, and each listing of a directory comes in an order of its own.
C6_Idempotent == SecondCallDone => SameOutcome(prev.outcome, last.outcome)

\* the second call returned the same two or more files in another order
C6_Witness ==
    /\ SecondCallDone
    /\ last.outcome.status = "returned"
    /\ Len(last.outcome.paths) >= 2
    /\ prev.outcome.paths # last.outcome.paths

\* C7: a call of find_matching_paths, returning or failing, leaves the set of
\* files and directories as it found it.
C7_ReadOnly == [][last'.op = "find_matching_paths" => fs' = fs]_vars

\* a call failed on a filesystem that holds entries
C7_Witness ==
    /\ IsFind /\ CallRaised
    /\ DOMAIN fs # {}

\* the call has a valid base directory and exactly one segment after it
OneWildcardSegment == ~CallIsLiteral /\ Directory(CallBase) /\ Len(CallTail) = 1

Seg == CallTail[1]

\* the regular files directly inside the base directory
FileChildren ==
    { c \in DOMAIN fs : /\ Len(c) = Len(CallBase) + 1
                        /\ SubSeq(c, 1, Len(CallBase)) = CallBase
                        /\ fs[c].kind = "file" }

LastName(c) == c[Len(c)]

\* the call yields exactly the files of E: it returns them, or E is empty and
\* the flag turned that into the no-match error
YieldsExactly(E) ==
    /\ CallReturned => ResultSet = E
    /\ CallRaised => E = {} /\ last.flag /\ last.outcome = NoMatchWildcard

\* the segment holds one "*" and no other wildcard character
StarSeg ==
    /\ Cardinality({ i \in 1..Len(Seg) : Seg[i] = "*" }) = 1
    /\ \A i \in 1..Len(Seg) : Seg[i] \notin {"?", "["}

StarAt == CHOOSE i \in 1..Len(Seg) : Seg[i] = "*"

\* name starts with what precedes the "*" and ends with what follows it
StarAccepts(name) ==
    LET pre == SubSeq(Seg, 1, StarAt - 1)
        suf == SubSeq(Seg, StarAt + 1, Len(Seg))
    IN  /\ Len(name) >= Len(pre) + Len(suf)
        /\ SubSeq(name, 1, Len(pre)) = pre
        /\ SubSeq(name, Len(name) - Len(suf) + 1, Len(name)) = suf

\* C8: a "*" stands for any, possibly empty, run of characters of one
\* segment: base/<pre>*<suf> yields exactly the regular files directly in
\* base whose name has that prefix and suffix, never a file further down;
\* and without a "**" segment every returned path has as many segments as
\* the pattern.
C8_StarWithinSegment ==
    /\ (IsFind /\ OneWildcardSegment /\ StarSeg) =>
          YieldsExactly({ c \in FileChildren : StarAccepts(LastName(c)) })
    /\ (IsFind /\ ~CallIsLiteral /\ CallReturned
          /\ \A i \in 1..Len(CallParts) : CallParts[i] # STARSTAR) =>
          \A p \in ResultSet : Len(p) = Len(CallParts)

\* a "*" segment with a literal part returned a file while a file with a
\* fitting name lies deeper below the base
C8_Witness ==
    /\ IsFind /\ OneWildcardSegment /\ StarSeg /\ CallReturned
    /\ Len(Seg) > 1
    /\ ResultSet # {}
    /\ \E c \in DOMAIN fs :
          /\ fs[c].kind = "file" /\ Len(c) > Len(CallBase) + 1
          /\ SubSeq(c, 1, Len(CallBase)) = CallBase
          /\ StarAccepts(LastName(c))
          /\ c \notin ResultSet

\* the segment holds "?" and no other wildcard character
QuestionSeg ==
    /\ \E i \in 1..Len(Seg) : Seg[i] = "?"
    /\ \A i \in 1..Len(Seg) : Seg[i] \notin {"*", "["}

\* name is as long as the segment and agrees with it outside the "?"
QuestionAccepts(name) ==
    /\ Len(name) = Len(Seg)
    /\ \A i \in 1..Len(Seg) : Seg[i] = "?" \/ name[i] = Seg[i]

\* C9: each "?" stands for exactly one character: the call yields exactly
\* the files of the base whose name has the segment's length and its
\* literal characters.
C9_QuestionOneChar ==
    (IsFind /\ OneWildcardSegment /\ QuestionSeg) =>
        YieldsExactly({ c \in FileChildren : QuestionAccepts(LastName(c)) })

\* the base holds files one shorter, as long, and one longer than the
\* segment; only the middle one is returned
C9_Witness ==
    /\ IsFind /\ OneWildcardSegment /\ QuestionSeg /\ CallReturned
    /\ \E c1, c2, c3 \in FileChildren :
          /\ Len(LastName(c1)) = Len(Seg) - 1
          /\ Len(LastName(c2)) = Len(Seg)
          /\ Len(LastName(c3)) = Len(Seg) + 1
          /\ ResultSet = {c2}

\* the segment holds one bracket class with at least one member and no other
\* wildcard character
ClassSeg ==
    /\ Cardinality({ i \in 1..Len(Seg) : Seg[i] = "[" }) = 1
    /\ Cardinality({ i \in 1..Len(Seg) : Seg[i] = "]" }) = 1
    /\ \A i \in 1..Len(Seg) : Seg[i] \notin {"*", "?"}
    /\ \E k, m \in 1..Len(Seg) :
          /\ Seg[k] = "[" /\ Seg[m] = "]" /\ k < m
          /\ m > (IF Seg[k + 1] = "!" THEN k + 2 ELSE k + 1)

ClassOpen == CHOOSE k \in 1..Len(Seg) : Seg[k] = "["
ClassClose == CHOOSE m \in 1..Len(Seg) : Seg[m] = "]"
ClassNegated == Seg[ClassOpen + 1] = "!"

ClassMembers ==
    { Seg[i] : i \in ((IF ClassNegated THEN ClassOpen + 2 ELSE ClassOpen + 1)..(ClassClose - 1)) }

\* name agrees with the segment outside the class and has, at the place of
\* the class, one character that is in the set (not in it, when negated)
ClassAccepts(name) ==
    /\ Len(name) = Len(Seg) - (ClassClose - ClassOpen)
    /\ SubSeq(name, 1, ClassOpen - 1) = SubSeq(Seg, 1, ClassOpen - 1)
    /\ SubSeq(name, ClassOpen + 1, Len(name)) = SubSeq(Seg, ClassClose + 1, Len(Seg))
    /\ IF ClassNegated THEN name[ClassOpen] \notin ClassMembers
       ELSE name[ClassOpen] \in ClassMembers

\* C10: "[...]" stands for one character of the set and "[!...]" for one
\* character outside it.
C10_BracketClass ==
    (IsFind /\ OneWildcardSegment /\ ClassSeg) =>
        YieldsExactly({ c \in FileChildren : ClassAccepts(LastName(c)) })

\* a negated class returned one file and left out a file that differs from
\* it only by a character of the set
C10_Witness ==
    /\ IsFind /\ OneWildcardSegment /\ ClassSeg /\ ClassNegated /\ CallReturned
    /\ \E c1, c2 \in FileChildren :
          /\ c1 \in ResultSet /\ c2 \notin ResultSet
          /\ Len(LastName(c1)) = Len(LastName(c2))
          /\ LastName(c2)[ClassOpen] \in ClassMembers
          /\ LastName(c1)[ClassOpen] \notin ClassMembers

\* the call has a valid base directory followed by "**" and one more segment
RecursiveTail ==
    /\ ~CallIsLiteral /\ Directory(CallBase)
    /\ Len(CallTail) = 2 /\ CallTail[1] = STARSTAR
    /\ (CallTail[2] = <<"*">> \/ Chars(CallTail[2]) \cap WILDCARD_CHARS = {})

\* the final segment is "*", or it is the name itself
FinalAccepts(name) == CallTail[2] = <<"*">> \/ name = CallTail[2]

\* the regular files at any depth below the base directory
FilesBelowBase ==
    { c \in DOMAIN fs : /\ Len(c) > Len(CallBase)
                        /\ SubSeq(c, 1, Len(CallBase)) = CallBase
                        /\ fs[c].kind = "file" }

\* C11: a "**" segment stands for zero or more directory levels:
\* base/**/<seg> yields every regular file that <seg> accepts, directly in
\* base and at every depth below it, each exactly once.
C11_RecursiveLevels ==
    (IsFind /\ RecursiveTail) =>
        /\ YieldsExactly({ c \in FilesBelowBase : FinalAccepts(LastName(c)) })
        /\ CallReturned => Len(last.outcome.paths) = Cardinality(ResultSet)

\* a file directly in the base and a file deeper down are both returned
C11_Witness ==
    /\ IsFind /\ RecursiveTail /\ CallReturned
    /\ \E c1, c2 \in ResultSet :
          /\ Len(c1) = Len(CallBase) + 1
          /\ Len(c2) > Len(CallBase) + 1

(* ------------------- properties of move_file, delete_file ------------------- *)

\* the latest call is a call of move_file that has come to its end
MoveDone == last.op = "move_file" /\ last.pc = "done"

MoveReturned == MoveDone /\ last.outcome.status = "returned"

MoveRaised(type) == MoveDone /\ last.outcome.status = "raised" /\ last.outcome.type = type

\* the filesystem the latest call started on
Before == last.before

\* path q is after the call what it was before
Untouched(q) == q \in DOMAIN Before /\ q \in DOMAIN fs /\ fs[q] = Before[q]

\* the call was given an existing file as source and a destination, not yet
\* there, whose parent directory does not exist and can be created
MissingParents ==
    /\ MoveDone
    /\ IsFile(Before, last.source)
    /\ Parent(last.destination) # <<>>
    /\ Parent(last.destination) \notin DOMAIN Before
    /\ \A q \in Prefixes(last.destination) : ~IsFile(Before, q)

\* C12: move_file on an existing source file and a destination whose parent
\* directories do not exist creates every missing parent directory, leaves at
\* the destination a file with the content the source had, overwrites nothing
\* else, and returns the destination path.
C12_CreatesParents ==
    MissingParents =>
        /\ MoveReturned
        /\ last.target = last.destination
        /\ \A q \in Prefixes(Parent(last.destination)) : IsDir(fs, q)
        /\ IsFile(fs, last.destination)
        /\ fs[last.destination].content = Before[last.source].content
        /\ \A q \in DOMAIN Before : q # last.source => Untouched(q)

\* the call was given an input on which a move can be carried out: the source
\* is a file, and the place the copy goes to is another path, is not a
\* directory, and has no file among its ancestors
ValidMove ==
    /\ MoveDone
    /\ IsFile(Before, last.source)
    /\ last.target # last.source
    /\ ~IsDir(Before, last.target)
    /\ \A q \in Prefixes(Parent(last.target)) : ~IsFile(Before, q)

\* C13: a move_file(source, destination) call with only those two arguments,
\* delete_original left at its default, succeeds on such an input and the
\* source path no longer exists afterwards.
C13_SourceGone ==
    (ValidMove /\ ~last.delete_original) =>
        /\ MoveReturned
        /\ ~Exists(fs, last.source)

\* where a file moved into the directory given as destination ends up
IntoDirectory == Append(last.destination, last.source[Len(last.source)])

\* the call was given an existing file as source and an existing directory
\* as destination, in which the source's name is free or names a file
DirectoryDestination ==
    /\ MoveDone
    /\ IsFile(Before, last.source)
    /\ IsDir(Before, last.destination)
    /\ IntoDirectory # last.source
    /\ ~IsDir(Before, IntoDirectory)

\* C14: when the destination given to move_file is an existing directory, the
\* file is placed at destination/<source file name> and that path is
\* returned; the directory stays a directory, and a file already there under
\* that name is overwritten with the source's content.
C14_IntoDirectory ==
    DirectoryDestination =>
        /\ MoveReturned
        /\ last.target = IntoDirectory
        /\ IsFile(fs, IntoDirectory)
        /\ fs[IntoDirectory].content = Before[last.source].content
        /\ IsDir(fs, last.destination)

\* the call was given a source path at which nothing exists
SourceMissing == MoveDone /\ ~Exists(Before, last.source)

\* C15: move_file with a source path that does not exist fails with the
\* source-not-found error and leaves the filesystem as it was: no destination
\* file and no parent directory of the destination is created.
C15_SourceNotFound ==
    SourceMissing =>
        /\ MoveRaised("FileNotFoundError")
        /\ last.outcome.msg = "File not found"
        /\ fs = Before

\* a call with a missing source and a destination below a missing directory
C15_Witness ==
    /\ SourceMissing
    /\ MoveRaised("FileNotFoundError")
    /\ Parent(last.destination) # <<>>
    /\ Parent(last.destination) \notin DOMAIN Before
    /\ Parent(last.destination) \notin DOMAIN fs
    /\ \E q \in DOMAIN fs : IsFile(fs, q)

\* the latest call is a call of delete_file
DeleteDone == last.op = "delete_file"

\* C16: delete_file returns true and the path no longer exists when the path
\* was a file before the call; it returns false, raising nothing and changing
\* nothing, when the path did not exist.
C16_BooleanResult ==
    DeleteDone =>
        /\ IsFile(Before, last.path) =>
               /\ last.outcome = Gave("True")
               /\ ~Exists(fs, last.path)
        /\ ~Exists(Before, last.path) =>
               /\ last.outcome = Gave("False")
               /\ fs = Before

\* a file was deleted while another entry stayed
C16_Witness ==
    /\ DeleteDone
    /\ IsFile(Before, last.path)
    /\ last.outcome = Gave("True")
    /\ last.path \notin DOMAIN fs
    /\ fs # EmptyFs

\* C17: delete_file on a path that does not exist raises FileNotFoundError
\* with the message 'File not found', and deleting an existing file returns
\* None; so of two calls in a row on the same file the first returns None
\* and the second raises FileNotFoundError.
C17_MissingRaises ==
    DeleteDone =>
        /\ ~Exists(Before, last.path) =>
               /\ last.outcome.status = "raised"
               /\ last.outcome.type = "FileNotFoundError"
               /\ last.outcome.msg = "File not found"
        /\ IsFile(Before, last.path) => last.outcome = Gave("None")

\* C18: delete_file on a path that is a directory raises IsADirectoryError
\* with the message 'Path is not a file' and leaves the directory in place;
\* delete_file on a file removes that file only, its parent directory stays.
C18_DirectoryRaises ==
    DeleteDone =>
        /\ IsDir(Before, last.path) =>
               /\ last.outcome.status = "raised"
               /\ last.outcome.type = "IsADirectoryError"
               /\ last.outcome.msg = "Path is not a file"
               /\ fs = Before
        /\ IsFile(Before, last.path) =>
               /\ fs = WithoutEntry(Before, last.path)
               /\ Exists(fs, Parent(last.path))

\* C19: move_file removes the source only when delete_original is true: with
\* delete_original false a call on an input that can be moved succeeds and
\* leaves the source file with its content unchanged, and afterwards source
\* and destination are two files with equal content.
C19_KeepsSource ==
    /\ (MoveDone /\ ~last.delete_original /\ Exists(Before, last.source)) =>
           Untouched(last.source)
    /\ (ValidMove /\ ~last.delete_original) =>
           /\ MoveReturned
           /\ IsFile(fs, last.target)
           /\ fs[last.target].content = fs[last.source].content

\* the place the copy of the latest call goes to, worked out from the
\* filesystem the call started on
Target == IF IsDir(Before, last.destination) THEN IntoDirectory ELSE last.destination

\* the latest call, finished or not, was given an input that can be moved
CanMove ==
    /\ last.op = "move_file"
    /\ IsFile(Before, last.source)
    /\ Target # last.source
    /\ ~IsDir(Before, Target)
    /\ \A q \in Prefixes(Parent(Target)) : ~IsFile(Before, q)

\* the content the source had when the call started is at the source, at
\* the target
AtSource ==
    IsFile(fs, last.source) /\ fs[last.source].content = Before[last.source].content

AtTarget == IsFile(fs, Target) /\ fs[Target].content = Before[last.source].content

\* C20: move_file runs its steps in the order check the source, create the
\* destination's parents, copy, then unlink the source if delete_original.
\* So nothing has changed before the parents are created, nothing but
\* parents is added while they are created, only the parents exist before
\* the copy, both copies exist between copy and unlink, the call
\* on an input that can be moved runs through to its return, the content is at
\* the source or at the target in every state of the move, and a call stopped
\* between copy and unlink leaves both copies.
C20_StepOrder ==
    CanMove =>
        /\ last.pc \in {"check", "resolve"} => fs = Before
        /\ last.pc = "mkdir" =>
               /\ \A q \in DOMAIN Before : Untouched(q)
               /\ \A q \in DOMAIN fs \ DOMAIN Before :
                      q \in Prefixes(Parent(Target)) /\ IsDir(fs, q)
        /\ last.pc = "copy" => fs = MkdirParents(Before, Parent(Target)).fs
        /\ last.pc = "unlink" => AtSource /\ AtTarget
        /\ last.pc = "return" => AtTarget /\ (last.delete_original <=> ~Exists(fs, last.source))
        /\ last.pc = "done" => last.outcome = Gave("destination") /\ last.target = Target
        /\ AtSource \/ AtTarget
        /\ (last.interrupted /\ last.pc = "unlink") => AtSource /\ AtTarget

(* ------------------ properties of the base directory split ------------------ *)

\* the call failed with one of the two base-directory errors
BaseError == last.outcome \in {BaseNotFound, BaseNotADirectory}

\* segment j of the glob pattern is a literal one that comes after the first
\* wildcard segment
LiteralAfter(j) == j \in 2..Len(CallTail) /\ Chars(CallTail[j]) \cap WILDCARD_CHARS = {}

\* the number of "**" segments before segment j of the glob pattern
StarStarsBefore(j) == Cardinality({ k \in 1..(j - 1) : CallTail[k] = STARSTAR })

\* the entries below the base directory that segment j could select: they
\* bear its name, j levels down, or at any level from j less the number of
\* "**" segments before it, each of which stands for zero or more levels
Candidates(j) ==
    { p \in DOMAIN fs :
        /\ IsPrefix(CallBase, p)
        /\ p[Len(p)] = CallTail[j]
        /\ Len(p) - Len(CallBase) >= j - StarStarsBefore(j)
        /\ StarStarsBefore(j) = 0 => Len(p) - Len(CallBase) = j }

\* C21: the base directory is the path made of the segments before the
\* first wildcard segment (the current directory when there is none) and the
\* glob pattern is the rest: a base-directory error is raised exactly when
\* that path is not a directory, and otherwise the result is what the rest
\* selects below it. A literal segment after the first wildcard that matches
\* nothing gives the empty list or the no-match error, never a
\* base-directory error.
C21_BaseSplit ==
    (IsFind /\ ~CallIsLiteral) =>
        /\ BaseError <=> ~Directory(CallBase)
        /\ (Directory(CallBase) /\ CallReturned) => ResultSet = CallMatches
        /\ \A j \in 1..Len(CallTail) :
               (Directory(CallBase) /\ ~InvalidGlob(CallTail) /\ LiteralAfter(j)
                    /\ Candidates(j) = {}) =>
                   last.outcome = IF last.flag THEN NoMatchWildcard ELSE Returned(<<>>)

\* below an existing base the wildcard matched a directory, and the literal
\* segment after it names nothing there
C21_Witness ==
    /\ IsFind /\ ~CallIsLiteral
    /\ CallBase # <<>> /\ Directory(CallBase)
    /\ LiteralAfter(2) /\ Candidates(2) = {}
    /\ \E d \in DOMAIN fs : Parent(d) = CallBase /\ Directory(d)
    /\ last.outcome = Returned(<<>>)

\* the pattern is the empty string or the current-directory marker
EmptyOrDot == last.pattern \in { <<>>, <<".">> }

\* C22: an empty pattern, or the pattern ".", has no wildcard and is resolved
\* as a literal path: the call returns the empty list when the flag is
\* clear, since the current directory is not a regular file, fails with the
\* no-match error of the literal branch when the flag is set, and never
\* fails with a base-directory error.
C22_EmptyOrDot ==
    (IsFind /\ EmptyOrDot) =>
        /\ CallIsLiteral /\ CallParts = <<>>
        /\ ~last.flag => last.outcome = Returned(<<>>)
        /\ last.flag =>
               /\ CallRaised
               /\ last.outcome.type = "FileNotFoundError"
               /\ last.outcome.msg = "No files found"
        /\ last.outcome.type # "NotADirectoryError"

\* the pattern "." with the flag set, in a directory that holds a file
C22_Witness ==
    /\ IsFind /\ last.pattern = <<".">> /\ last.flag
    /\ \E p \in DOMAIN fs : RegularFile(p)
    /\ CallRaised /\ last.outcome.msg = "No files found"

(* ------------------- properties under concurrent changes ------------------- *)

\* the latest call of find_matching_paths, run read by read, has ended
FindDone == last.op = "find_matching_paths" /\ last.pc = "done"

\* the errors find_matching_paths raises itself
DeclaredErrors == { BaseNotFound, BaseNotADirectory, NoMatchLiteral, NoMatchWildcard }

\* C23: when another process deletes the base directory, or puts a file in
\* its place, after it has passed validation, before or during the glob
\* traversal, find_matching_paths still ends with a defined outcome: a list,
\* possibly empty, or one of its declared errors (base not found, base not a
\* directory, no match), never another exception.
C23_DefinedOutcome ==
    FindDone => (last.outcome.status = "returned" \/ last.outcome \in DeclaredErrors)

\* both of the two concurrent calls of delete_file have ended
DeletesDone ==
    last.op = "delete_file twice" /\ \A i \in Callers : last.calls[i].pc = "done"

\* C24: of two delete_file calls on the same existing file that run
\* concurrently, the existence test and the unlink of each being separate
\* steps, exactly one returns true and the other false, neither raises, and
\* the file is gone afterwards.
C24_OneDeletes ==
    (DeletesDone /\ IsFile(Before, last.path)) =>
        /\ \A i \in Callers : last.calls[i].outcome.status = "returned"
        /\ \E i \in Callers :
               /\ last.calls[i].outcome = Gave("True")
               /\ \A j \in Callers \ {i} : last.calls[j].outcome = Gave("False")
        /\ ~Exists(fs, last.path)

====
